---------------------------- MODULE Spec2Model ----------------------------
(***************************************************************************)
(* plottr (src/plottr/plottr.py): a ZMQ PULL listener thread that forwards *)
(* decoded JSON messages through Qt queued signals to the GUI thread,      *)
(* which keeps one DataWindow per dataset id and turns the flat message    *)
(* into MultiIndex'ed data frames.                                         *)
(*                                                                         *)
(* Data representation                                                     *)
(*   JSON dict (ordered)   : a sequence of entries, each with a name       *)
(*   pandas DataFrame      : [name, names, index, vals]; index is the      *)
(*                           sequence of row labels (tuples), vals the     *)
(*                           single column, row for row (empty when the    *)
(*                           frame has no column)                          *)
(*   python dict by name   : a function whose DOMAIN is the set of keys    *)
(*   insertion-ordered dict: a sequence of entries with distinct names     *)
(***************************************************************************)
EXTENDS Integers, Sequences, FiniteSets, TLC

VARIABLES
    pc,           \* DataReceiver.loop: where the listener thread is
    running,      \* DataReceiver.running
    data,         \* the local `data` of DataReceiver.loop
    received,     \* history: every payload socket.recv_json was handed
    emitted,      \* history: every signal the listener emitted
    mainQueue,    \* GUI thread's event queue: queued sendInfo/sendData calls
    dataHandlers, \* PlottrMain.dataHandlers: id -> DataWindow
    log,          \* Logger: the messages appended
    applied,      \* history: every message processData was called with
    lastErr,      \* exception raised by the last processData call ("none")
    lastRefresh,  \* updateDataStructure calls of the last processData call
    closed,       \* PlottrMain.closeEvent has run
    slot,         \* the message of the processData call the GUI thread is in
    df1, df2,     \* arguments of a combineDataFrames call
    sortIndex,    \*   "
    dfOut,        \* its result
    mpc,          \* "in" before the call, "out" after
    sDict,        \* argument of a dictToDataFrames call
    sOut,         \* its result: the frames, or the exception
    spc,          \* "in" before the call, "out" after
    plotChoice    \* a PlotChoice widget: its combo boxes and choiceInfo

sysVars == <<pc, running, data, received, emitted, mainQueue, dataHandlers,
             log, applied, lastErr, lastRefresh, closed, slot>>
mergeVars == <<df1, df2, sortIndex, dfOut, mpc>>
structVars == <<sDict, sOut, spc>>
vars == <<sysVars, mergeVars, structVars, plotChoice>>

-----------------------------------------------------------------------------
(* Bounds *)

\* number of payloads the socket delivers in one run
MaxMsgs == 3
\* rows of a data frame handed to combineDataFrames
MaxRows == 2
\* axes of the dataStructure entry handed to PlotChoice.setOptions
MaxAxes == 3
\* length of an array of the dict handed to dictToDataFrames
MaxLen == 4

-----------------------------------------------------------------------------
(* Wire messages *)

Ids == {"A", "B"}

\* an axis array descriptor: {'values': v}
Axis(n, v) == [name |-> n, values |-> v, hasAxes |-> FALSE, axes |-> <<>>]
\* a data array descriptor: {'values': v, 'axes': ax}
Data(n, v, ax) == [name |-> n, values |-> v, hasAxes |-> TRUE, axes |-> ax]

\* a decoded JSON object; has* tell which keys are present
Msg(hasId, id, hasUpdate, update, hasDatasets, datasets) ==
    [kind |-> "map", hasId |-> hasId, id |-> id,
     hasUpdate |-> hasUpdate, update |-> update,
     hasDatasets |-> hasDatasets, datasets |-> datasets]

\* bytes that are not JSON: recv_json raises
Garbage == [Msg(FALSE, "", FALSE, FALSE, FALSE, <<>>) EXCEPT !.kind = "garbage"]
\* JSON that is not an object (a list, a number, a string)
NotMapping == [Msg(FALSE, "", FALSE, FALSE, FALSE, <<>>) EXCEPT !.kind = "list"]
\* no payload held
NoPayload == [Msg(FALSE, "", FALSE, FALSE, FALSE, <<>>) EXCEPT !.kind = "nil"]

DS_Two == <<Axis("x", <<1, 2>>), Axis("y", <<1, 1>>),
            Data("d", <<5, 6>>, <<"x">>), Data("e", <<7, 8>>, <<"x", "y">>)>>
DS_One == <<Axis("x", <<2, 3>>), Data("d", <<7, 8>>, <<"x">>)>>
DS_Dup == <<Axis("x", <<1, 1>>), Data("d", <<5, 6>>, <<"x">>)>>
DS_MissingAxis == <<Axis("x", <<1, 2>>), Data("e", <<7, 8>>, <<"x">>),
                    Data("d", <<5, 6>>, <<"x", "q">>)>>
DS_AxisLen == <<Axis("x", <<1, 2>>), Axis("y", <<1>>),
                Data("d", <<5>>, <<"x", "y">>)>>
DS_ValLen == <<Axis("x", <<1, 2>>), Data("d", <<5>>, <<"x">>)>>

Payloads ==
    { Garbage, NotMapping,
      Msg(FALSE, "", FALSE, FALSE, TRUE, DS_One),
      Msg(TRUE, "A", FALSE, FALSE, TRUE, DS_Two),
      Msg(TRUE, "A", TRUE, FALSE, TRUE, DS_One),
      Msg(TRUE, "A", TRUE, TRUE, TRUE, DS_One),
      Msg(TRUE, "A", FALSE, FALSE, FALSE, <<>>),
      Msg(TRUE, "A", FALSE, FALSE, TRUE, DS_AxisLen),
      Msg(TRUE, "A", FALSE, FALSE, TRUE, DS_ValLen),
      Msg(TRUE, "B", FALSE, FALSE, TRUE, DS_Dup),
      Msg(TRUE, "B", FALSE, FALSE, TRUE, DS_MissingAxis) }

-----------------------------------------------------------------------------
(* dictToDataFrames *)

HasKey(dataDict, a) == \E i \in DOMAIN dataDict : dataDict[i].name = a
Get(dataDict, a) == dataDict[CHOOSE i \in DOMAIN dataDict : dataDict[i].name = a]

Min(S) == CHOOSE m \in S : \A k \in S : m <= k

\* mutant of Zip: the columns are taken in reverse order
Zip_Reversed(cols) ==
    LET n == IF cols = <<>> THEN 0 ELSE Min({Len(cols[k]) : k \in DOMAIN cols})
    IN  [i \in 1..n |-> [k \in DOMAIN cols |-> cols[Len(cols) + 1 - k][i]]]

\* list(zip(*cols)): as many tuples as the shortest column has elements
Zip(cols) ==
    LET n == IF cols = <<>> THEN 0 ELSE Min({Len(cols[k]) : k \in DOMAIN cols})
    IN  [i \in 1..n |-> [k \in DOMAIN cols |-> cols[k][i]]]

NoFrame == [name |-> "", names |-> <<>>, index |-> <<>>, vals |-> <<>>]

\* the body of the loop for one data array n: the frame, or the exception
MakeFrame(dataDict, n) ==
    IF \E k \in DOMAIN n.axes : ~HasKey(dataDict, n.axes[k])
    THEN [err |-> "KeyError", df |-> NoFrame]
    ELSE LET coords == [k \in DOMAIN n.axes |-> Get(dataDict, n.axes[k]).values]
             tuples == Zip(coords)
         IN  IF tuples = <<>>
             THEN [err |-> "TypeError", df |-> NoFrame]
             ELSE IF n.values = <<>>
             THEN [err |-> "none",
                   df |-> [name |-> n.name, names |-> n.axes,
                           index |-> tuples, vals |-> <<>>]]
             ELSE IF Len(n.values) # Len(tuples)
             THEN [err |-> "ValueError", df |-> NoFrame]
             ELSE [err |-> "none",
                   df |-> [name |-> n.name, names |-> n.axes,
                           index |-> tuples, vals |-> n.values]]

RECURSIVE dictToDataFramesFrom(_, _, _)
dictToDataFramesFrom(dataDict, i, dfs) ==
    IF i > Len(dataDict) THEN [err |-> "none", dfs |-> dfs]
    ELSE IF ~dataDict[i].hasAxes THEN dictToDataFramesFrom(dataDict, i + 1, dfs)
    ELSE LET r == MakeFrame(dataDict, dataDict[i])
         IN  IF r.err # "none" THEN [err |-> r.err, dfs |-> <<>>]
             ELSE dictToDataFramesFrom(dataDict, i + 1, Append(dfs, r.df))

dictToDataFrames(dataDict) == dictToDataFramesFrom(dataDict, 1, <<>>)

\* df.size: rows times columns
Size(df) == Len(df.vals)
\* len(df.index.levels[k]): the distinct labels of level k
LevelSize(df, k) == Cardinality({df.index[i][k] : i \in DOMAIN df.index})


-----------------------------------------------------------------------------
(* combineDataFrames *)

\* lexicographic order of two row labels of the same MultiIndex
TupleLess(a, b) ==
    \E k \in DOMAIN a : a[k] < b[k] /\ \A j \in 1..(k - 1) : a[j] = b[j]

\* df1.append(df2): the rows of df1, then the rows of df2
AppendFrames(a, b) ==
    [name |-> a.name, names |-> a.names,
     index |-> a.index \o b.index, vals |-> a.vals \o b.vals]

\* the stable sorting permutation of the first n labels of index
RECURSIVE SortPerm(_, _)
SortPerm(index, n) ==
    IF n = 0 THEN <<>>
    ELSE LET p == SortPerm(index, n - 1)
             c == Cardinality({j \in 1..(n - 1) : ~TupleLess(index[n], index[j])})
         IN  SubSeq(p, 1, c) \o <<n>> \o SubSeq(p, c + 1, n - 1)

\* mutant of SortFrame: the frame is returned as appended
SortFrame_Unsorted(df) == df

\* df.sort_index(): rows in ascending label order, equal labels keep their order
SortFrame(df) ==
    LET p == SortPerm(df.index, Len(df.index))
    IN  [df EXCEPT !.index = [i \in DOMAIN p |-> df.index[p[i]]],
                   !.vals = [i \in DOMAIN p |-> df.vals[p[i]]]]

combineDataFrames(a, b, sorted) ==
    IF sorted THEN SortFrame(AppendFrames(a, b)) ELSE AppendFrames(a, b)

-----------------------------------------------------------------------------
(* PlotChoice *)

AVGAXISNAMES == {"average", "averages", "repetition", "repetitions"}

\* str.lower() on the axis names used here
Lower(n) ==
    IF n = "Average" THEN "average" ELSE IF n = "<None>" THEN "<none>" ELSE n

\* avgSelection, xSelection, ySelection, in the order the code visits them
Combos == <<"avg", "x", "y">>

\* PlotChoice.__init__: three empty combo boxes; axesNames and choiceInfo are
\* not set yet
NewPlotChoice ==
    [hasAxesNames |-> FALSE, axesNames |-> <<>>, noSelName |-> "",
     items |-> [c \in {"avg", "x", "y"} |-> <<>>],
     idx |-> [c \in {"avg", "x", "y"} |-> -1],
     hasChoiceInfo |-> FALSE,
     choiceInfo |-> [avgAxis |-> -1, xAxis |-> -1, yAxis |-> -1, slices |-> 0]]

\* QComboBox.currentText(): '' when there is no current item
CurrentText(st, c) ==
    IF st.idx[c] = -1 THEN "" ELSE st.items[c][st.idx[c] + 1]

\* mutant of ResetIfSame: the other selectors are left alone
ResetIfSame_Never(isOther, text, newVal) == FALSE

\* the test of updateOptions: another selector showing the new value
ResetIfSame(isOther, text, newVal) == isOther /\ text = newVal

RECURSIVE updateOptions(_, _, _)

\* QComboBox.setCurrentIndex(i); a change of the current text emits
\* currentTextChanged, which runs avgSelected/xSelected/ySelected
SetCurrentIndex(st, c, i) ==
    LET new == IF i >= 0 /\ i < Len(st.items[c]) THEN i ELSE -1
        st2 == [st EXCEPT !.idx[c] = new]
    IN  IF CurrentText(st2, c) # CurrentText(st, c)
        THEN updateOptions(st2, c, CurrentText(st2, c))
        ELSE st2

\* one turn of the loop of updateOptions, for selector opt
ResetOption(st, changedOption, newVal, opt) ==
    IF ResetIfSame(opt # changedOption, CurrentText(st, opt), newVal)
    THEN SetCurrentIndex(st, opt, 0)
    ELSE st

updateOptions(st, changedOption, newVal) ==
    LET s1 == ResetOption(st, changedOption, newVal, Combos[1])
        s2 == ResetOption(s1, changedOption, newVal, Combos[2])
        s3 == ResetOption(s2, changedOption, newVal, Combos[3])
    IN  [s3 EXCEPT !.hasChoiceInfo = TRUE,
                   !.choiceInfo = [avgAxis |-> s3.idx["avg"] - 1,
                                   xAxis |-> s3.idx["x"] - 1,
                                   yAxis |-> s3.idx["y"] - 1,
                                   slices |-> Len(s3.axesNames) - 1]]

\* QComboBox.clear()
ClearCombo(st, c) ==
    LET st2 == [st EXCEPT !.items[c] = <<>>, !.idx[c] = -1]
    IN  IF CurrentText(st, c) # "" THEN updateOptions(st2, c, "") ELSE st2

\* QComboBox.addItems(names): the first item of an empty box becomes current
AddItems(st, c, names) ==
    LET st2 == [st EXCEPT !.items[c] = st.items[c] \o names]
    IN  IF st.items[c] = <<>> /\ names # <<>>
        THEN SetCurrentIndex(st2, c, 0)
        ELSE st2

\* QComboBox.setCurrentText(t) of a box that is not editable
SetCurrentText(st, c, t) ==
    IF \E i \in DOMAIN st.items[c] : st.items[c][i] = t
    THEN SetCurrentIndex(st, c,
             Min({i \in DOMAIN st.items[c] : st.items[c][i] = t}) - 1)
    ELSE st

\* '<None>', wrapped in <> until it is no axis name
NoSelCandidates == <<"<None>", "<<None>>", "<<<None>>>">>
NoSelNameFor(axes) ==
    NoSelCandidates[Min({i \in DOMAIN NoSelCandidates :
                            \A k \in DOMAIN axes : axes[k] # NoSelCandidates[i]})]

\* the last name that says averaging, '' when there is none
AvgAxisNameOf(names) ==
    LET hits == {i \in DOMAIN names : Lower(names[i]) \in AVGAXISNAMES}
    IN  IF hits = {} THEN "" ELSE names[CHOOSE i \in hits : \A j \in hits : j <= i]

\* list.pop(list.index(v))
PopFirst(seq, v) ==
    LET i == Min({k \in DOMAIN seq : seq[k] = v})
    IN  SubSeq(seq, 1, i - 1) \o SubSeq(seq, i + 1, Len(seq))

\* clear and fill one selector
Refill(st, c) == AddItems(ClearCombo(st, c), c, st.axesNames)

\* PlotChoice.setOptions for a dataStructure entry whose axes are named axes
setOptions(st, axes) ==
    LET noSel == NoSelNameFor(axes)
        names == <<noSel>> \o axes
        avg   == AvgAxisNameOf(names)
        s0 == [st EXCEPT !.hasAxesNames = TRUE, !.axesNames = names,
                         !.noSelName = noSel]
        s1 == Refill(Refill(Refill(s0, Combos[1]), Combos[2]), Combos[3])
        s2 == IF avg # "" THEN SetCurrentText(s1, "avg", avg)
              ELSE SetCurrentIndex(s1, "avg", 0)
        xopts == IF avg # "" THEN PopFirst(Tail(names), avg) ELSE Tail(names)
        s3 == IF Len(xopts) > 0 THEN SetCurrentText(s2, "x", xopts[1]) ELSE s2
        s4 == IF Len(xopts) > 1 THEN SetCurrentText(s3, "y", xopts[2]) ELSE s3
    IN  s4

-----------------------------------------------------------------------------
(* DataWindow *)

EmptyDict == [k \in {} |-> NoFrame]

\* DataWindow.__init__: self.data = {}; self.dataStructure is not set yet;
\* nothing is selected in the (empty) structure tree
NewDataWindow ==
    [data |-> EmptyDict, hasStructure |-> FALSE, dataStructure |-> <<>>,
     selName |-> ""]

Keys(seq) == {seq[i].name : i \in DOMAIN seq}

\* d[key] = entry on an insertion-ordered dict
DictSet(seq, entry) ==
    IF entry.name \in Keys(seq)
    THEN [i \in DOMAIN seq |-> IF seq[i].name = entry.name THEN entry ELSE seq[i]]
    ELSE Append(seq, entry)

\* the dataStructure entry addData builds for one frame
StructureOf(df) ==
    [name |-> df.name, nValues |-> Size(df),
     axes |-> [k \in DOMAIN df.names |->
                  [name |-> df.names[k], nValues |-> LevelSize(df, k)]]]

\* updateDataStructure(reset=True): the tree is rebuilt from dataStructure; the
\* item named like the old selection is selected again, and with no old
\* selection the first item is
updateDataStructure(w) ==
    [w EXCEPT !.selName =
        IF w.selName # ""
        THEN (IF w.selName \in Keys(w.dataStructure) THEN w.selName ELSE "")
        ELSE w.dataStructure[1].name]

\* one turn of the loop over newDataFrames in addData
AddFrame(w, df) ==
    updateDataStructure(
        [w EXCEPT !.dataStructure = DictSet(w.dataStructure, StructureOf(df)),
                  !.data = [k \in (DOMAIN w.data) \cup {df.name} |->
                               IF k = df.name THEN df ELSE w.data[k]]])

\* [w, refresh]: the window after the first n frames and, per
\* updateDataStructure call, the array names the tree then showed
RECURSIVE AddFrames(_, _, _)
AddFrames(w, dfs, n) ==
    IF n = 0 THEN [w |-> w, refresh |-> <<>>]
    ELSE LET r == AddFrames(w, dfs, n - 1)
             w2 == AddFrame(r.w, dfs[n])
         IN  [w |-> w2,
              refresh |-> Append(r.refresh,
                                 [i \in DOMAIN w2.dataStructure |->
                                     w2.dataStructure[i].name])]

\* dataDict.get('update', False)
GetUpdate(msg) == IF msg.hasUpdate THEN msg.update ELSE FALSE

\* DataWindow.addData: [w, err, refresh]
addData(w, msg) ==
    LET doUpdate == GetUpdate(msg)
    IN  IF ~(msg.hasDatasets /\ msg.datasets # <<>>)
        THEN [w |-> w, err |-> "none", refresh |-> <<>>]
        ELSE LET r == dictToDataFrames(msg.datasets)
             IN  IF r.err # "none"
                 THEN [w |-> w, err |-> r.err, refresh |-> <<>>]
                 ELSE IF ~doUpdate
                 THEN LET a == AddFrames([w EXCEPT !.hasStructure = TRUE,
                                                   !.dataStructure = <<>>],
                                         r.dfs, Len(r.dfs))
                      IN  [w |-> a.w, err |-> "none", refresh |-> a.refresh]
                 ELSE [w |-> w, err |-> "NotImplementedError", refresh |-> <<>>]

-----------------------------------------------------------------------------
(* PlottrMain.processData *)

\* mutant of WithHandler: one window object under every id
WithHandler_Shared(handlers, id, w) ==
    [k \in (DOMAIN handlers) \cup {id} |-> w]

\* the handlers with id bound to w
WithHandler(handlers, id, w) ==
    [k \in (DOMAIN handlers) \cup {id} |-> IF k = id THEN w ELSE handlers[k]]

\* a window is opened for an id not seen before
EnsureHandler(handlers, id) ==
    IF id \in DOMAIN handlers THEN handlers
    ELSE WithHandler(handlers, id, NewDataWindow)

\* [handlers, err, refresh, opened]
processData(handlers, msg) ==
    LET h == EnsureHandler(handlers, msg.id)
        r == addData(h[msg.id], msg)
    IN  [handlers |-> WithHandler(h, msg.id, r.w), err |-> r.err,
         refresh |-> r.refresh, opened |-> msg.id \notin DOMAIN handlers]

-----------------------------------------------------------------------------
(* DataReceiver.loop and the signals it emits *)

Info(text, id) == [sig |-> "sendInfo", text |-> text, id |-> id, msg |-> NoPayload]
SendData(msg) == [sig |-> "sendData", text |-> "", id |-> msg.id, msg |-> msg]

\* mutant of Post: the newest slot calls are run first
Post_Front(queue, signals) == signals \o queue

\* a cross-thread emit posts the slot call at the end of the receiver's queue
Post(queue, signals) == queue \o signals

\* while self.running
LoopCondition(r) == r

\* mutant of LoopBody: the KeyError of data['id'] is not caught
LoopBody_NoIdRaises(d) ==
    IF d.kind # "map" \/ ~d.hasId THEN [raised |-> TRUE, signals |-> <<>>]
    ELSE [raised |-> FALSE,
          signals |-> <<Info("Received data for dataset: ", d.id), SendData(d)>>]

\* mutant of LoopBody: the data is announced and never sent
LoopBody_DropsData(d) ==
    IF d.kind # "map" THEN [raised |-> TRUE, signals |-> <<>>]
    ELSE IF ~d.hasId
    THEN [raised |-> FALSE,
          signals |-> <<Info("Received invalid data (no ID)", "")>>]
    ELSE [raised |-> FALSE,
          signals |-> <<Info("Received data for dataset: ", d.id)>>]

\* the loop body after recv_json returned d: [raised, signals]
LoopBody(d) ==
    IF d.kind # "map" THEN [raised |-> TRUE, signals |-> <<>>]
    ELSE IF ~d.hasId
    THEN [raised |-> FALSE,
          signals |-> <<Info("Received invalid data (no ID)", "")>>]
    ELSE [raised |-> FALSE,
          signals |-> <<Info("Received data for dataset: ", d.id), SendData(d)>>]

\* mutant of Emit: a direct connection, the slot runs inside the emit
Emit_Direct(handlers, queue, signals) ==
    LET ms == SelectSeq(signals, LAMBDA e : e.sig = "sendData")
    IN  [handlers |-> IF ms = <<>> THEN handlers
                      ELSE processData(handlers, ms[1].msg).handlers,
         queue |-> queue]

\* the listener lives in listeningThread, the receivers in the GUI thread:
\* the connections are queued, an emit posts the slot calls and returns
Emit(handlers, queue, signals) ==
    [handlers |-> handlers, queue |-> Post(queue, signals)]

\* listeningThread.start(): loop() begins
Start ==
    /\ pc = "start"
    /\ emitted' = Append(emitted, Info("Listening...", ""))
    /\ mainQueue' = Post(mainQueue, <<Info("Listening...", "")>>)
    /\ pc' = "check"
    /\ UNCHANGED <<running, data, received, dataHandlers, log, applied,
                   lastErr, lastRefresh, closed, slot,
                   mergeVars, structVars, plotChoice>>

\* the while test
CheckRunning ==
    /\ pc = "check"
    /\ pc' = IF LoopCondition(running) THEN "recv" ELSE "done"
    /\ UNCHANGED <<running, data, received, emitted, mainQueue, dataHandlers,
                   log, applied, lastErr, lastRefresh, closed, slot,
                   mergeVars, structVars, plotChoice>>

\* socket.recv_json() returns, or raises on bytes that are not JSON
RecvJson ==
    /\ pc = "recv"
    /\ Len(received) < MaxMsgs
    /\ \E p \in Payloads :
          /\ received' = Append(received, p)
          /\ IF p.kind = "garbage"
             THEN pc' = "crashed" /\ data' = data
             ELSE pc' = "handle" /\ data' = p
    /\ UNCHANGED <<running, emitted, mainQueue, dataHandlers, log, applied,
                   lastErr, lastRefresh, closed, slot,
                   mergeVars, structVars, plotChoice>>

\* data['id'] and the emits
Handle ==
    /\ pc = "handle"
    /\ LET r == LoopBody(data)
           e == Emit(dataHandlers, mainQueue, r.signals)
       IN  /\ pc' = IF r.raised THEN "crashed" ELSE "check"
           /\ emitted' = emitted \o r.signals
           /\ mainQueue' = e.queue
           /\ dataHandlers' = e.handlers
    /\ UNCHANGED <<running, data, received, log, applied,
                   lastErr, lastRefresh, closed, slot,
                   mergeVars, structVars, plotChoice>>

-----------------------------------------------------------------------------
(* The GUI thread *)

LogLine(text, id) == [text |-> text, id |-> id]

\* Logger.addMessage, called for a queued sendInfo
DeliverInfo ==
    /\ slot = NoPayload
    /\ mainQueue # <<>>
    /\ Head(mainQueue).sig = "sendInfo"
    /\ log' = Append(log, LogLine(Head(mainQueue).text, Head(mainQueue).id))
    /\ mainQueue' = Tail(mainQueue)
    /\ UNCHANGED <<pc, running, data, received, emitted, dataHandlers, applied,
                   lastErr, lastRefresh, closed, slot, mergeVars,
                   structVars, plotChoice>>

\* the event loop takes a queued sendData: PlottrMain.processData is entered
DeliverData ==
    /\ slot = NoPayload
    /\ mainQueue # <<>>
    /\ Head(mainQueue).sig = "sendData"
    /\ slot' = Head(mainQueue).msg
    /\ mainQueue' = Tail(mainQueue)
    /\ UNCHANGED <<pc, running, data, received, emitted, dataHandlers, log,
                   applied, lastErr, lastRefresh, closed, mergeVars,
                   structVars, plotChoice>>

\* PlottrMain.processData runs to its end, or to its exception
ProcessData ==
    /\ slot # NoPayload
    /\ LET m == slot
           r == processData(dataHandlers, m)
       IN  /\ dataHandlers' = r.handlers
           /\ lastErr' = r.err
           /\ lastRefresh' = r.refresh
           /\ applied' = Append(applied, m)
           /\ log' = IF r.opened
                     THEN Append(log, LogLine("Started new data window for ", m.id))
                     ELSE log
    /\ slot' = NoPayload
    /\ UNCHANGED <<pc, running, data, received, emitted, mainQueue, closed,
                   mergeVars, structVars, plotChoice>>

\* PlottrMain.closeEvent: the stop request
CloseEvent ==
    /\ slot = NoPayload
    /\ ~closed
    /\ closed' = TRUE
    /\ running' = FALSE
    /\ UNCHANGED <<pc, data, received, emitted, mainQueue, dataHandlers, log,
                   applied, lastErr, lastRefresh, slot, mergeVars,
                   structVars, plotChoice>>

-----------------------------------------------------------------------------
(* Specifications *)

\* PlottrMain.__init__ and DataReceiver.__init__ have run
SysInit ==
    /\ pc = "start"
    /\ running = TRUE
    /\ data = NoPayload
    /\ received = <<>>
    /\ emitted = <<>>
    /\ mainQueue = <<>>
    /\ dataHandlers = [k \in {} |-> NewDataWindow]
    /\ log = <<>>
    /\ applied = <<>>
    /\ lastErr = ""
    /\ lastRefresh = <<>>
    /\ closed = FALSE
    /\ slot = NoPayload

MergeIdle ==
    /\ df1 = NoFrame
    /\ df2 = NoFrame
    /\ sortIndex = TRUE
    /\ dfOut = NoFrame
    /\ mpc = "off"

StructIdle ==
    /\ sDict = <<>>
    /\ sOut = [err |-> "none", dfs |-> <<>>]
    /\ spc = "off"

ChoiceIdle == plotChoice = NewPlotChoice

Init == SysInit /\ MergeIdle /\ StructIdle /\ ChoiceIdle

Next ==
    \/ Start
    \/ CheckRunning
    \/ RecvJson
    \/ Handle
    \/ DeliverInfo
    \/ DeliverData
    \/ ProcessData
    \/ CloseEvent

Spec == Init /\ [][Next]_vars

\* row labels and values of the frames handed to combineDataFrames
Labels == {<<1, 1>>, <<1, 2>>, <<2, 1>>}
Values == {5, 7}

RowSeqs(S) == UNION {[1..n -> S] : n \in 1..MaxRows}

\* frames over the axes x, y, as dictToDataFrames builds them
Frames ==
    {[name |-> "d", names |-> <<"x", "y">>, index |-> i, vals |-> v] :
        <<i, v>> \in {iv \in RowSeqs(Labels) \X RowSeqs(Values) :
                         Len(iv[1]) = Len(iv[2])}}

MergeInit ==
    /\ SysInit
    /\ StructIdle
    /\ ChoiceIdle
    /\ df1 \in Frames
    /\ df2 \in Frames
    /\ sortIndex \in BOOLEAN
    /\ dfOut = NoFrame
    /\ mpc = "in"

\* one call combineDataFrames(df1, df2, sortIndex)
Combine ==
    /\ mpc = "in"
    /\ dfOut' = combineDataFrames(df1, df2, sortIndex)
    /\ mpc' = "out"
    /\ UNCHANGED <<df1, df2, sortIndex, sysVars, structVars, plotChoice>>

MergeNext == Combine

MergeSpec == MergeInit /\ [][MergeNext]_vars

\* the axis names a dataStructure entry can carry
AxisNamePool == {"x", "y", "Average", "<None>"}

\* lists of distinct axis names
AxesLists ==
    {a \in UNION {[1..n -> AxisNamePool] : n \in 1..MaxAxes} :
        \A i, j \in DOMAIN a : a[i] = a[j] => i = j}

ChoiceInit ==
    /\ SysInit
    /\ MergeIdle
    /\ StructIdle
    /\ plotChoice = NewPlotChoice

\* DataWindow.activateData: the selectors are populated for the selected array
SetOptions ==
    /\ \E axes \in AxesLists : plotChoice' = setOptions(plotChoice, axes)
    /\ UNCHANGED <<sysVars, mergeVars, structVars>>

\* the user picks item i in one of the selectors
Select ==
    /\ \E k \in DOMAIN Combos :
          \E i \in 0..(Len(plotChoice.items[Combos[k]]) - 1) :
              plotChoice' = SetCurrentIndex(plotChoice, Combos[k], i)
    /\ UNCHANGED <<sysVars, mergeVars, structVars>>

ChoiceNext ==
    \/ SetOptions
    \/ Select

ChoiceSpec == ChoiceInit /\ [][ChoiceNext]_vars

\* values that tell their position: 11, 12, ...
Ramp(n) == [i \in 1..n |-> 10 + i]

\* coordinate arrays of up to MaxLen values
AxisValues == UNION {[1..n -> {1, 2}] : n \in 1..MaxLen}

\* what a data array may name as its axes; "q" is in no dict
AxesChoices == {<<>>, <<"x">>, <<"x", "y">>, <<"y", "x">>, <<"x", "q">>}

\* datasets dicts: axis arrays x and y, data array d, and with or without a
\* data array e over y that comes first
StructDicts ==
    {(IF withE THEN <<Data("e", Ramp(Len(yv)), <<"y">>)>> ELSE <<>>)
        \o <<Axis("x", xv), Data("d", Ramp(n), ax), Axis("y", yv)>> :
        <<xv, yv, n, ax, withE>> \in
            AxisValues \X AxisValues \X (0..MaxLen) \X AxesChoices \X BOOLEAN}

StructInit ==
    /\ SysInit
    /\ MergeIdle
    /\ ChoiceIdle
    /\ sDict \in StructDicts
    /\ sOut = [err |-> "none", dfs |-> <<>>]
    /\ spc = "in"

\* one call dictToDataFrames(sDict)
Structure ==
    /\ spc = "in"
    /\ sOut' = dictToDataFrames(sDict)
    /\ spc' = "out"
    /\ UNCHANGED <<sDict, sysVars, mergeVars, plotChoice>>

StructNext == Structure

StructSpec == StructInit /\ [][StructNext]_vars

-----------------------------------------------------------------------------
(* Vocabulary of the properties *)

Last(seq) == seq[Len(seq)]

\* the names of the data arrays (descriptors with axes) of a datasets dict
DataNames(ds) == {ds[i].name : i \in {j \in DOMAIN ds : ds[j].hasAxes}}

\* the message carries a non-empty datasets dict
CarriesDatasets(m) == m.hasDatasets /\ m.datasets # <<>>

\* the message's datasets structure without an exception
Structures(m) == CarriesDatasets(m) /\ dictToDataFrames(m.datasets).err = "none"

\* name -> frame, as structured from the message alone
ContentOf(m) ==
    LET dfs == dictToDataFrames(m.datasets).dfs
    IN  [n \in {dfs[i].name : i \in DOMAIN dfs} |->
            dfs[CHOOSE i \in DOMAIN dfs : dfs[i].name = n]]

\* some data array names an axis the dict does not hold
MissingAxisIn(ds) ==
    \E i \in DOMAIN ds :
        ds[i].hasAxes /\ \E k \in DOMAIN ds[i].axes : ~HasKey(ds, ds[i].axes[k])

\* data array i has all its axes, and their lengths differ from one another
\* or from the length of the array's values
LengthMismatchAt(ds, i) ==
    /\ ds[i].hasAxes
    /\ ds[i].axes # <<>>
    /\ \A k \in DOMAIN ds[i].axes : HasKey(ds, ds[i].axes[k])
    /\ \E k \in DOMAIN ds[i].axes :
          Len(Get(ds, ds[i].axes[k]).values) # Len(ds[i].values)

\* the step is a processData call
Applies == applied' # applied

-----------------------------------------------------------------------------
(* Properties *)

\* C1 (full reset): when the last two processData calls were for the same id,
\* both with update false or absent and datasets that structure, the id's
\* window holds exactly the second message: data and dataStructure are keyed
\* by its data array names and data holds its frames.
C1_FullReset ==
    Len(applied) >= 2 =>
        LET m1 == applied[Len(applied) - 1]
            m2 == applied[Len(applied)]
            w  == dataHandlers[m2.id]
        IN  (m1.id = m2.id /\ ~GetUpdate(m1) /\ ~GetUpdate(m2)
                /\ Structures(m1) /\ Structures(m2))
            => /\ w.data = ContentOf(m2)
               /\ Keys(w.dataStructure) = DataNames(m2.datasets)

\* C2 (update path): a processData call with update true and datasets that
\* structure succeeds, and afterwards every data array of the message is
\* stored as the merge of the incoming frame into the frame stored before, or
\* as the incoming frame when none was stored.
C2_UpdateMerges ==
    [][Applies =>
        LET m == Last(applied')
        IN  (GetUpdate(m) /\ Structures(m)) =>
              /\ lastErr' = "none"
              /\ \A n \in DOMAIN ContentOf(m) :
                    /\ n \in DOMAIN dataHandlers'[m.id].data
                    /\ dataHandlers'[m.id].data[n] =
                          IF m.id \in DOMAIN dataHandlers
                             /\ n \in DOMAIN dataHandlers[m.id].data
                          THEN combineDataFrames(dataHandlers[m.id].data[n],
                                                 ContentOf(m)[n], TRUE)
                          ELSE ContentOf(m)[n]]_vars

\* C3 (atomic schema rejection): a processData call whose datasets name a
\* missing axis raises and leaves dataHandlers (the ids, and every window's
\* data and dataStructure) as it was.
C3_SchemaRejectionAtomic ==
    [][Applies =>
        LET m == Last(applied')
        IN  (CarriesDatasets(m) /\ MissingAxisIn(m.datasets)) =>
              /\ lastErr' # "none"
              /\ dataHandlers' = dataHandlers]_vars

\* C4 (length mismatch): a processData call whose datasets hold a data array
\* with axes of unequal length, or with a value length other than its axes'
\* length, raises, and no frame is stored for that array.
C4_LengthMismatchRejected ==
    applied # <<>> =>
        LET m == Last(applied)
        IN  \A i \in DOMAIN m.datasets :
              (CarriesDatasets(m) /\ LengthMismatchAt(m.datasets, i)) =>
                 /\ lastErr # "none"
                 /\ m.datasets[i].name \notin DOMAIN dataHandlers[m.id].data

\* the messages of the sendData signals of a sequence of signals
DataMsgs(signals) ==
    LET ds == SelectSeq(signals, LAMBDA e : e.sig = "sendData")
    IN  [i \in DOMAIN ds |-> ds[i].msg]

\* the received payloads that are JSON objects with an id
WithId(payloads) == SelectSeq(payloads, LAMBDA p : p.kind = "map" /\ p.hasId)

\* the payloads whose loop body has run: all but one still held in `data`
Handled == IF pc = "handle" THEN SubSeq(received, 1, Len(received) - 1) ELSE received

\* dataHandlers after processData was called with msgs[1], .., msgs[n] in turn
RECURSIVE Sequentially(_, _)
Sequentially(msgs, n) ==
    IF n = 0 THEN [k \in {} |-> NewDataWindow]
    ELSE processData(Sequentially(msgs, n - 1), msgs[n]).handlers

InvalidInfo == Info("Received invalid data (no ID)", "")

\* C5 (missing identifier): the loop body run on a JSON object without 'id'
\* emits exactly one signal, the "invalid data" sendInfo, posts it to the GUI
\* thread, emits no sendData, leaves dataHandlers alone and is back at the
\* head of the loop.
C5_MissingIdentifier ==
    [][(pc = "handle" /\ pc' # "handle" /\ data.kind = "map" /\ ~data.hasId) =>
          /\ emitted' = Append(emitted, InvalidInfo)
          /\ mainQueue' = Append(mainQueue, InvalidInfo)
          /\ dataHandlers' = dataHandlers
          /\ pc' = "check"]_vars

\* the loop body has just run on a JSON object without 'id'
C5_Witness ==
    /\ pc = "check"
    /\ received # <<>>
    /\ Last(received).kind = "map"
    /\ ~Last(received).hasId
    /\ Last(emitted) = InvalidInfo

\* C6 (listener resilience): whatever was received, the loop has left its
\* running state only if the stop was requested.
C6_ListenerResilient ==
    pc \in {"done", "crashed"} => closed

\* the message of the processData call under way, if any
InSlot == IF slot = NoPayload THEN <<>> ELSE <<slot>>

\* C7 (arrival order): the messages processData was called with, followed by
\* the one it is running on and those still queued, are the id-bearing
\* messages in the order received; and dataHandlers is what calling
\* processData on the finished ones one after another, in that order, gives.
C7_ArrivalOrder ==
    /\ applied \o InSlot \o DataMsgs(mainQueue) = WithId(Handled)
    /\ dataHandlers = Sequentially(applied, Len(applied))

\* three messages from two producers were applied, the queue is drained, and
\* applying them with two of them exchanged would have given another registry
C7_Witness ==
    /\ Len(applied) = 3
    /\ DataMsgs(mainQueue) = <<>>
    /\ pc # "handle"
    /\ {applied[i].id : i \in DOMAIN applied} = Ids
    /\ \E i, j \in DOMAIN applied :
          /\ i < j
          /\ dataHandlers #
                Sequentially([k \in DOMAIN applied |->
                                 IF k = i THEN applied[j]
                                 ELSE IF k = j THEN applied[i] ELSE applied[k]], 3)

\* C8 (cooperative stop): once the while test has read running = False, the
\* loop receives nothing and emits nothing more; and at that moment every
\* id-bearing message received has had its sendData emitted.
C8_CooperativeStop ==
    [][/\ pc = "done" => (pc' = "done" /\ received' = received /\ emitted' = emitted)
       /\ pc' = "done" => DataMsgs(emitted') = WithId(received')]_vars

\* the stop was observed after two id-bearing messages were received, with
\* a sendData still waiting in the GUI thread's queue
C8_Witness ==
    /\ pc = "done"
    /\ closed
    /\ Len(WithId(received)) >= 2
    /\ DataMsgs(mainQueue) # <<>>

\* C9 (identifier lifecycle): an id enters dataHandlers only by a processData
\* call for it that succeeds on a message carrying datasets, such a call
\* leaves the id in dataHandlers, and an id in dataHandlers stays.
C9_IdentifierLifecycle ==
    [][\A id \in Ids :
          /\ (id \notin DOMAIN dataHandlers /\ id \in DOMAIN dataHandlers') =>
                /\ Applies
                /\ Last(applied').id = id
                /\ lastErr' = "none"
                /\ CarriesDatasets(Last(applied'))
          /\ (Applies /\ Last(applied').id = id /\ lastErr' = "none"
                  /\ CarriesDatasets(Last(applied'))) => id \in DOMAIN dataHandlers'
          /\ id \in DOMAIN dataHandlers => id \in DOMAIN dataHandlers']_vars

\* no row label occurs twice in the frame
UniqueLabels(df) ==
    \A i, j \in DOMAIN df.index : df.index[i] = df.index[j] => i = j

Labelled(df, t) == {i \in DOMAIN df.index : df.index[i] = t}

\* C10 (last write wins): combining two frames over the same axes, each with
\* unique labels, gives for every label of both exactly one row, holding the
\* incoming value, and as many rows as the existing frame has plus the
\* incoming labels that were not in it.
C10_LastWriteWins ==
    (mpc = "out" /\ UniqueLabels(df1) /\ UniqueLabels(df2)) =>
        /\ \A i \in DOMAIN df2.index :
              Labelled(df1, df2.index[i]) # {} =>
                 /\ Cardinality(Labelled(dfOut, df2.index[i])) = 1
                 /\ \A k \in Labelled(dfOut, df2.index[i]) :
                       dfOut.vals[k] = df2.vals[i]
        /\ Len(dfOut.index) =
              Len(df1.index)
              + Cardinality({i \in DOMAIN df2.index : Labelled(df1, df2.index[i]) = {}})

\* C11 (merge idempotence): for frames with unique labels over the same axes,
\* combining the incoming frame into the result of a first combine changes
\* nothing, and combining a frame into itself gives that frame.
C11_MergeIdempotent ==
    (mpc = "out" /\ UniqueLabels(df1) /\ UniqueLabels(df2)) =>
        /\ combineDataFrames(dfOut, df2, sortIndex) = dfOut
        /\ df1 = df2 => dfOut = df1

\* the labels of the frame never descend, in the lexicographic order of the
\* declared axes
Ascending(df) ==
    \A i, j \in DOMAIN df.index : i < j => ~TupleLess(df.index[j], df.index[i])

\* the rows of the frame, as a bag: row -> number of occurrences
RowBag(df) ==
    LET rows == {<<df.index[i], df.vals[i]>> : i \in DOMAIN df.index}
    IN  [r \in rows |->
            Cardinality({i \in DOMAIN df.index : <<df.index[i], df.vals[i]>> = r})]

\* C12 (merge ordering): the frame combineDataFrames returns when it sorts
\* (sortIndex true, the default) has its labels in ascending lexicographic
\* order, and holds the rows of both arguments, whatever their order was.
C12_MergeOrdered ==
    (mpc = "out" /\ sortIndex) =>
        /\ Ascending(dfOut)
        /\ RowBag(dfOut) = RowBag(AppendFrames(df1, df2))

\* a sorting combine whose arguments, appended, were out of order, on both
\* the first and the second axis
C12_Witness ==
    /\ mpc = "out"
    /\ sortIndex
    /\ Ascending(dfOut)
    /\ \E i \in DOMAIN df1.index, j \in DOMAIN df2.index :
          /\ df2.index[j][1] < df1.index[i][1]
    /\ \E i \in DOMAIN df1.index, j \in DOMAIN df2.index :
          /\ df2.index[j][1] = df1.index[i][1]
          /\ df2.index[j][2] < df1.index[i][2]

\* C13 (coordinate uniqueness): every frame stored in a window holds each
\* row label at most once.
C13_CoordinatesUnique ==
    \A id \in DOMAIN dataHandlers :
        \A n \in DOMAIN dataHandlers[id].data :
            UniqueLabels(dataHandlers[id].data[n])

\* C20 (exclusive axis roles): once setOptions has run, and after any manual
\* selections, two selectors show the same entry only if it is the 'none'
\* entry, and choiceInfo holds each selector's current index minus one.
C20_ExclusiveRoles ==
    plotChoice.hasAxesNames =>
        /\ \A c1, c2 \in {"avg", "x", "y"} :
              (c1 # c2 /\ CurrentText(plotChoice, c1) = CurrentText(plotChoice, c2))
                 => /\ plotChoice.idx[c1] = 0
                    /\ CurrentText(plotChoice, c1) = plotChoice.noSelName
        /\ plotChoice.hasChoiceInfo
        /\ plotChoice.choiceInfo.avgAxis = plotChoice.idx["avg"] - 1
        /\ plotChoice.choiceInfo.xAxis = plotChoice.idx["x"] - 1
        /\ plotChoice.choiceInfo.yAxis = plotChoice.idx["y"] - 1

\* three axes were offered, the averaging axis was found by its name, and a
\* manual selection has taken an axis from another selector, which went back
\* to 'none'
C20_Witness ==
    /\ plotChoice.hasAxesNames
    /\ Len(plotChoice.axesNames) = 4
    /\ AvgAxisNameOf(plotChoice.axesNames) # ""
    /\ CurrentText(plotChoice, "x") = AvgAxisNameOf(plotChoice.axesNames)
    /\ plotChoice.idx["avg"] = 0
    /\ plotChoice.idx["y"] > 0

\* every data array has axes, all of them in the dict, each as long as the
\* array's values, which are not empty
WellFormed(ds) ==
    \A i \in DOMAIN ds :
        ds[i].hasAxes =>
            /\ ds[i].axes # <<>>
            /\ ds[i].values # <<>>
            /\ \A k \in DOMAIN ds[i].axes :
                  /\ HasKey(ds, ds[i].axes[k])
                  /\ Len(Get(ds, ds[i].axes[k]).values) = Len(ds[i].values)

\* the i-th coordinate tuple of data array e, read off the dict
TupleAt(ds, e, i) == [k \in DOMAIN e.axes |-> Get(ds, e.axes[k]).values[i]]

RECURSIVE Product(_, _)
Product(sizes, n) == IF n = 0 THEN 1 ELSE sizes[n] * Product(sizes, n - 1)

\* s1 * ... * sN for the numbers of distinct values of e's axes
GridSize(ds, e) ==
    Product([k \in DOMAIN e.axes |->
                Cardinality({Get(ds, e.axes[k]).values[i] : i \in DOMAIN e.values})],
            Len(e.axes))

\* the positions of e name every point of the grid of its axes exactly once
FullCartesian(ds, e) ==
    /\ Len(e.values) = GridSize(ds, e)
    /\ Cardinality({TupleAt(ds, e, i) : i \in DOMAIN e.values}) = GridSize(ds, e)

\* C14 (structuring result): for a well-formed dict dictToDataFrames raises
\* nothing and returns one frame per descriptor with axes, in dict order and
\* named after it, none for a descriptor without axes; row i of the frame of
\* array n is labelled with the i-th values of n's axes in the declared order
\* and holds the i-th value of n; for a full Cartesian coordinate set the
\* frame has s1*...*sN distinct labels, each once.
C14_StructuringResult ==
    (spc = "out" /\ WellFormed(sDict)) =>
        LET descs == SelectSeq(sDict, LAMBDA e : e.hasAxes)
        IN  /\ sOut.err = "none"
            /\ Len(sOut.dfs) = Len(descs)
            /\ \A j \in DOMAIN descs :
                  LET e  == descs[j]
                      df == sOut.dfs[j]
                  IN  /\ df.name = e.name
                      /\ df.names = e.axes
                      /\ Len(df.index) = Len(e.values)
                      /\ Len(df.vals) = Len(e.values)
                      /\ \A i \in DOMAIN e.values :
                            /\ df.index[i] = TupleAt(sDict, e, i)
                            /\ df.vals[i] = e.values[i]
                      /\ FullCartesian(sDict, e) =>
                            /\ Cardinality({df.index[i] : i \in DOMAIN df.index})
                                  = GridSize(sDict, e)
                            /\ UniqueLabels(df)

\* two data arrays were structured, the second over the axes (y, x) with a
\* full 2 x 2 grid whose coordinates differ between the axes
C14_Witness ==
    /\ spc = "out"
    /\ WellFormed(sDict)
    /\ Len(sOut.dfs) = 2
    /\ sOut.dfs[1].name = "e"
    /\ sOut.dfs[2].names = <<"y", "x">>
    /\ FullCartesian(sDict, Get(sDict, "d"))
    /\ Len(sOut.dfs[2].index) = 4

\* C15 (message without datasets): a processData call for a message with an
\* id and no 'datasets' key raises nothing and leaves dataHandlers as it was:
\* the same ids, and for each the same data and dataStructure.
C15_NoDatasetsNoChange ==
    [][Applies =>
        LET m == Last(applied')
        IN  ~m.hasDatasets =>
              /\ lastErr' = "none"
              /\ DOMAIN dataHandlers' = DOMAIN dataHandlers
              /\ \A id \in DOMAIN dataHandlers :
                    /\ dataHandlers'[id].data = dataHandlers[id].data
                    /\ dataHandlers'[id].dataStructure = dataHandlers[id].dataStructure
                    /\ dataHandlers'[id].hasStructure = dataHandlers[id].hasStructure]_vars

\* C16 (listener decoupling): the listener is never held up by the GUI
\* thread: its while test can always run and recv_json can take the next
\* message, however many slot calls are queued and while processData is
\* running; a loop body only posts its signals to mainQueue; dataHandlers
\* changes only when the GUI thread finishes a processData call.
C16_ListenerDecoupled ==
    /\ [](/\ pc = "check" => ENABLED CheckRunning
          /\ (pc = "recv" /\ Len(received) < MaxMsgs) => ENABLED RecvJson)
    /\ [][/\ (pc = "handle" /\ pc' # pc) =>
                /\ mainQueue' = mainQueue \o LoopBody(data).signals
                /\ applied' = applied
                /\ dataHandlers' = dataHandlers
          /\ dataHandlers' # dataHandlers =>
                /\ slot # NoPayload
                /\ Applies
                /\ pc' = pc
                /\ received' = received]_vars

\* the listener is about to receive its third message while the GUI thread is
\* inside processData for the first and two more slot calls are queued
C16_Witness ==
    /\ pc = "recv"
    /\ Len(received) = 2
    /\ slot # NoPayload
    /\ Len(mainQueue) >= 2
    /\ DataMsgs(mainQueue) # <<>>

\* C17 (metadata is current): after a processData call that raised nothing,
\* the names with an entry in the window's dataStructure are the names with a
\* frame in its data, and for each the entry's nValues is the number of rows
\* stored and its axes are the frame's index names in order, each with the
\* number of distinct values of that level.
C17_MetadataCurrent ==
    (applied # <<>> /\ lastErr = "none") =>
        LET w == dataHandlers[Last(applied).id]
        IN  /\ Keys(w.dataStructure) = DOMAIN w.data
            /\ \A i \in DOMAIN w.dataStructure :
                  LET s  == w.dataStructure[i]
                      df == w.data[s.name]
                  IN  s.name \in DOMAIN w.data =>
                        /\ s.nValues = Len(df.vals)
                        /\ [k \in DOMAIN s.axes |-> s.axes[k].name] = df.names
                        /\ \A k \in DOMAIN s.axes :
                              s.axes[k].nValues =
                                 Cardinality({df.index[r][k] : r \in DOMAIN df.index})

\* C18 (change notification): a processData call that raised nothing, for a
\* message with data arrays, called updateDataStructure exactly once, with
\* the tree showing every data array of the message; a call that raised
\* called it not at all.
C18_RefreshOncePerApply ==
    applied # <<>> =>
        LET m == Last(applied)
        IN  /\ (lastErr = "none" /\ CarriesDatasets(m) /\ DataNames(m.datasets) # {}) =>
                  /\ Len(lastRefresh) = 1
                  /\ {lastRefresh[1][i] : i \in DOMAIN lastRefresh[1]}
                        = DataNames(m.datasets)
            /\ lastErr # "none" => lastRefresh = <<>>

\* C19 (isolation between identifiers): a processData call for one id, raising
\* or not, leaves every other id in dataHandlers with the window it had: the
\* same data and the same dataStructure.
C19_IdentifierIsolation ==
    [][Applies =>
        \A id \in (DOMAIN dataHandlers) \ {Last(applied').id} :
            /\ id \in DOMAIN dataHandlers'
            /\ dataHandlers'[id] = dataHandlers[id]]_vars

\* B holds data; then one call for A stored data and the next call for A raised
C19_Witness ==
    /\ Len(applied) = 3
    /\ applied[1].id = "B"
    /\ applied[2].id = "A"
    /\ applied[3].id = "A"
    /\ lastErr # "none"
    /\ DOMAIN dataHandlers = {"A", "B"}
    /\ DOMAIN dataHandlers["A"].data # {}
    /\ DOMAIN dataHandlers["B"].data # {}

=============================================================================
